---------------------------- MODULE Spec2Model ----------------------------
(***************************************************************************)
(* Model of the proposal / RFP evaluation toolkit (Combined.py and its     *)
(* earlier variant Combined_keep.py).                                      *)
(*                                                                         *)
(* Text is modelled as a sequence of one-character strings so that         *)
(* substring search, lower-casing, colon stripping and title-casing are    *)
(* computed the way Python computes them.                                  *)
(***************************************************************************)
EXTENDS Integers, Sequences, FiniteSets, TLC

(***************************************************************************)
(* Bounds of the model.                                                    *)
(***************************************************************************)
MaxRuns == 3

MaxExpectations == 3

MaxTextLen == 2

MaxParas == 2

MaxEvalParas == 2

MaxSentences == 3

(***************************************************************************)
(* State.  Each function of the program has its own group of variables;    *)
(* a specification that does not run a function leaves its group idle.     *)
(***************************************************************************)
\* extract_rfp_expectations
VARIABLES
    text_with_formatting,   \* the argument of extract_rfp_expectations
    rfp_pc,                 \* "idle", "call", "scan", "done"
    rfp_i,                  \* number of items the for loop has consumed
    body_font_size,
    current_section,
    seen_expectations,
    expectations

\* check_expectations_coverage
VARIABLES
    cov_expectations,       \* the argument `expectations`
    proposal_text,          \* the argument `proposal_text`
    partial_ratio,          \* fuzz.partial_ratio on the strings of this call
    cov_pc,                 \* "idle", "call", "loop", "done"
    cov_i,                  \* number of expectations the for loop has consumed
    proposal_paragraphs,
    addressed,
    missing,
    cov_score               \* <<numerator, denominator>> of the returned score

\* formatting_check
VARIABLES
    fmt_doc,                \* the argument `doc`: a sequence of paragraphs
    fmt_pc,                 \* "idle", "call", "loop", "exit", "done"
    fmt_p,                  \* number of paragraphs the second loop has consumed
    fmt_body_font_size,
    spelling_issues,        \* length of the list spelling_issues
    font_ok,
    font_size_ok

\* evaluate_proposal
VARIABLES
    ev_doc,                 \* the argument `doc`
    required_sections,      \* the argument `required_sections`
    ev_pc,                  \* "idle", "call", "sections", "formatted", "scored", "done"
    section_results,
    formatting_results,
    missing_components,
    total_score,
    recommendations,
    unknown_words,          \* how many words spell.unknown reports for `doc`
    modal_size,             \* the size max(set(font_sizes), key=...) picks for `doc`
    first_result            \* the result of an earlier call with the same arguments

\* the Combined.py script
VARIABLES
    uploaded_proposal,      \* None or the uploaded proposal file
    uploaded_rfp,           \* None or the uploaded RFP file
    button,                 \* st.button("Evaluate Proposal") of this run
    flow_pc,                \* the statement the run is at
    prop_text,
    flow_doc,               \* doc, the proposal as python-docx opened it
    rfp_expectations,
    evaluation,
    rfp_score,
    rfp_missing,
    rfp_addressed,
    org_score,
    errors,                 \* the st.error calls of this run, by try block
    unhandled,              \* the exception that ended the run, if one did
    shown                   \* the parts of the results section shown

\* process_rfp (Combined_keep.py)
VARIABLES
    rfp_file_text,          \* the text the decoder reads from the uploaded file
    proc_pc,
    proc_text,              \* text, once cleaned
    assigned_sentences,
    details                 \* the "Details" column, one string per category so far

rfpVars ==
    <<text_with_formatting, rfp_pc, rfp_i, body_font_size, current_section,
      seen_expectations, expectations>>

covVars ==
    <<cov_expectations, proposal_text, partial_ratio, cov_pc, cov_i,
      proposal_paragraphs, addressed, missing, cov_score>>

fmtVars ==
    <<fmt_doc, fmt_pc, fmt_p, fmt_body_font_size, spelling_issues, font_ok,
      font_size_ok>>

evVars ==
    <<ev_doc, required_sections, ev_pc, section_results, formatting_results,
      missing_components, total_score, recommendations, unknown_words, modal_size,
      first_result>>

flowVars ==
    <<uploaded_proposal, uploaded_rfp, button, flow_pc, prop_text, flow_doc,
      rfp_expectations, evaluation, rfp_score, rfp_missing, rfp_addressed,
      org_score, errors, unhandled, shown>>

procVars == <<rfp_file_text, proc_pc, proc_text, assigned_sentences, details>>

vars == <<rfpVars, covVars, fmtVars, evVars, flowVars, procVars>>

(***************************************************************************)
(* Python string primitives.                                               *)
(***************************************************************************)
Lowers ==
    <<"a","b","c","d","e","f","g","h","i","j","k","l","m",
      "n","o","p","q","r","s","t","u","v","w","x","y","z">>

Uppers ==
    <<"A","B","C","D","E","F","G","H","I","J","K","L","M",
      "N","O","P","Q","R","S","T","U","V","W","X","Y","Z">>

ToLower == [c \in {Uppers[i] : i \in 1..26} |-> Lowers[CHOOSE i \in 1..26 : Uppers[i] = c]]

ToUpper == [c \in {Lowers[i] : i \in 1..26} |-> Uppers[CHOOSE i \in 1..26 : Lowers[i] = c]]

IsCased(c) == c \in DOMAIN ToLower \/ c \in DOMAIN ToUpper

LowerChar(c) == IF c \in DOMAIN ToLower THEN ToLower[c] ELSE c

UpperChar(c) == IF c \in DOMAIN ToUpper THEN ToUpper[c] ELSE c

\* str.lower()
Lower(s) == <<>> \o [i \in 1..Len(s) |-> LowerChar(s[i])]

\* str.title(): a cased character is upper-cased when it follows an uncased
\* character (or starts the string) and lower-cased otherwise.
Title(s) ==
    <<>> \o [i \in 1..Len(s) |->
               IF i > 1 /\ IsCased(s[i-1]) THEN LowerChar(s[i]) ELSE UpperChar(s[i])]

\* str.strip(":"): colons are removed from BOTH ends.
StripColons(s) ==
    LET keep == {i \in 1..Len(s) : s[i] # ":"}
    IN  IF keep = {} THEN <<>>
        ELSE LET lo == CHOOSE i \in keep : \A j \in keep : i <= j
                 hi == CHOOSE i \in keep : \A j \in keep : i >= j
             IN  SubSeq(s, lo, hi)

\* str.rstrip(":"): colons are removed from the end only.
RStripColons(s) ==
    LET keep == {i \in 1..Len(s) : s[i] # ":"}
    IN  IF keep = {} THEN <<>>
        ELSE SubSeq(s, 1, CHOOSE i \in keep : \A j \in keep : i >= j)

\* k in t
Contains(k, t) ==
    \E i \in 1..(Len(t) - Len(k) + 1) : \A j \in 1..Len(k) : t[i + j - 1] = k[j]

(***************************************************************************)
(* extract_rfp_expectations (Combined.py).                                 *)
(***************************************************************************)
None == 0

DefaultBodyFontSize == 11

General == <<"G","e","n","e","r","a","l">>

keywords ==
    << <<"d","e","l","i","v","e","r","a","b","l","e">>,
       <<"b","u","d","g","e","t">>,
       <<"t","i","m","e","l","i","n","e">>,
       <<"e","x","p","e","c","t","e","d">>,
       <<"s","c","o","p","e"," ","o","f"," ","w","o","r","k">>,
       <<"m","e","t","h","o","d","o","l","o","g","y">>,
       <<"o","b","j","e","c","t","i","v","e">>,
       <<"g","o","a","l">>,
       <<"r","e","q","u","i","r","e","m","e","n","t","s">>,
       <<"o","u","t","c","o","m","e","s">> >>

RunSizes == {None, 11, 14}

\* Runs the styled-run extractor may deliver.
StyledRuns ==
    [text : { <<>>,
              <<"g","o","a","l">>,
              <<"G","O","A","L">>,
              <<":","t","o"," ","d","o",":">> },
     bold : BOOLEAN, font_size : RunSizes]

\* Runs at the body font size with two different keywords, one of them in two
\* cases, and a text without keyword.
KeywordRuns ==
    [text : { <<"g","o","a","l">>, <<"G","O","A","L">>,
              <<"b","u","d","g","e","t">>, <<"t","o"," ","d","o">> },
     bold : BOOLEAN, font_size : {DefaultBodyFontSize}]

RunLists ==
    UNION {[1..n -> StyledRuns] \cup [1..n -> KeywordRuns] : n \in 0..MaxRuns}

\* font_sizes = [item["font_size"] for item in ... if item["font_size"]]
FontSizesOf(items) ==
    SelectSeq([i \in 1..Len(items) |-> items[i].font_size], LAMBDA s : s # None)

CountOf(s, sizes) == Cardinality({i \in 1..Len(sizes) : sizes[i] = s})

\* max(set(font_sizes), key=font_sizes.count): one of the most frequent
\* sizes; which one on a tie depends on the set's iteration order.
ModalSizes(sizes) ==
    {s \in {sizes[i] : i \in 1..Len(sizes)} :
        \A t \in {sizes[i] : i \in 1..Len(sizes)} : CountOf(t, sizes) <= CountOf(s, sizes)}

BodyFontSizes(items) ==
    IF FontSizesOf(items) # <<>> THEN ModalSizes(FontSizesOf(items))
    ELSE {DefaultBodyFontSize}

IsHeading_AndInsteadOfOr(item, body) ==
    item.bold /\ (item.font_size # None /\ item.font_size > body)

\* if bold or (font_size and font_size > body_font_size)
IsHeading(item, body) ==
    item.bold \/ (item.font_size # None /\ item.font_size > body)

HasKeyword_CaseSensitive(text) == \E n \in 1..Len(keywords) : Contains(keywords[n], text)

\* any(k in text.lower() for k in keywords)
HasKeyword(text) == \E n \in 1..Len(keywords) : Contains(keywords[n], Lower(text))

AlreadySeen_CaseSensitive(text, seen) == text \in seen

\* text.lower() in seen_expectations
AlreadySeen(text, seen) == Lower(text) \in seen

RfpInit ==
    /\ text_with_formatting \in RunLists
    /\ rfp_pc = "call"
    /\ rfp_i = 0
    /\ body_font_size = None
    /\ current_section = <<>>
    /\ seen_expectations = {}
    /\ expectations = <<>>

RfpIdle ==
    /\ text_with_formatting = <<>>
    /\ rfp_pc = "idle"
    /\ rfp_i = 0
    /\ body_font_size = None
    /\ current_section = <<>>
    /\ seen_expectations = {}
    /\ expectations = <<>>

\* Lines 126-134: the locals are set up and the body font size is chosen.
RfpBegin ==
    /\ rfp_pc = "call"
    /\ rfp_pc' = "scan"
    /\ expectations' = <<>>
    /\ current_section' = General
    /\ seen_expectations' = {}
    /\ body_font_size' \in BodyFontSizes(text_with_formatting)
    /\ UNCHANGED <<text_with_formatting, rfp_i>>
    /\ UNCHANGED <<covVars, fmtVars, evVars, flowVars, procVars>>

ScanItem_Prepend(st, item, body) ==
    LET text == item.text
    IN  IF text = <<>> THEN st
        ELSE IF IsHeading(item, body)
        THEN [st EXCEPT !.current_section = Title(StripColons(text))]
        ELSE IF HasKeyword(text) /\ ~AlreadySeen(text, st.seen_expectations)
        THEN [st EXCEPT
                !.expectations =
                    <<[section |-> st.current_section, expectation |-> text]>> \o @,
                !.seen_expectations = @ \cup {Lower(text)}]
        ELSE st

ScanItem_FirstHeadingWins(st, item, body) ==
    LET text == item.text
    IN  IF text = <<>> THEN st
        ELSE IF IsHeading(item, body)
        THEN IF st.current_section = General
             THEN [st EXCEPT !.current_section = Title(StripColons(text))]
             ELSE st
        ELSE IF HasKeyword(text) /\ ~AlreadySeen(text, st.seen_expectations)
        THEN [st EXCEPT
                !.expectations =
                    Append(@, [section |-> st.current_section, expectation |-> text]),
                !.seen_expectations = @ \cup {Lower(text)}]
        ELSE st

\* Lines 137-153: the body of the for loop on one item; st holds the locals
\* current_section, seen_expectations and expectations.
ScanItem(st, item, body) ==
    LET text == item.text
    IN  IF text = <<>> THEN st
        ELSE IF IsHeading(item, body)
        THEN [st EXCEPT !.current_section = Title(StripColons(text))]
        ELSE IF HasKeyword(text) /\ ~AlreadySeen(text, st.seen_expectations)
        THEN [st EXCEPT
                !.expectations =
                    Append(@, [section |-> st.current_section, expectation |-> text]),
                !.seen_expectations = @ \cup {Lower(text)}]
        ELSE st

\* Lines 136-153: one iteration of the for loop.
RfpScan ==
    /\ rfp_pc = "scan"
    /\ rfp_i < Len(text_with_formatting)
    /\ rfp_i' = rfp_i + 1
    /\ \E st \in {ScanItem([current_section |-> current_section,
                            seen_expectations |-> seen_expectations,
                            expectations |-> expectations],
                           text_with_formatting[rfp_i + 1], body_font_size)} :
           /\ current_section' = st.current_section
           /\ seen_expectations' = st.seen_expectations
           /\ expectations' = st.expectations
    /\ UNCHANGED <<text_with_formatting, rfp_pc, body_font_size>>
    /\ UNCHANGED <<covVars, fmtVars, evVars, flowVars, procVars>>

\* Line 155: return expectations.
RfpReturn ==
    /\ rfp_pc = "scan"
    /\ rfp_i = Len(text_with_formatting)
    /\ rfp_pc' = "done"
    /\ UNCHANGED <<text_with_formatting, rfp_i, body_font_size, current_section,
                   seen_expectations, expectations>>
    /\ UNCHANGED <<covVars, fmtVars, evVars, flowVars, procVars>>

RfpNext == RfpBegin \/ RfpScan \/ RfpReturn

(***************************************************************************)
(* check_expectations_coverage (Combined.py).                              *)
(***************************************************************************)
MatchThreshold == 70

NL == "\n"

\* Expectation records as extract_rfp_expectations builds them.
ExpectationTexts == { <<"g","o","a","l">>, <<"b","u","d","g","e","t">> }

ExpectationLists ==
    UNION {[1..n -> [section : {General}, expectation : ExpectationTexts]] :
              n \in 0..MaxExpectations}

\* Proposal texts: every string over one letter and the newline.
ProposalTexts == UNION {[1..n -> {"x", NL}] : n \in 0..MaxTextLen}

\* Values fuzz.partial_ratio may return (0..100), around the threshold.
Ratios == {0, 69, 70, 100}

\* str.split("\n"): the pieces between newlines.  An empty string yields one
\* empty piece, a trailing newline a last empty piece.
NewlinesOf(s) == {i \in 1..Len(s) : s[i] = NL}

\* The position of the j-th newline of s; 0 for j = 0, Len(s) + 1 past the last.
NewlineAt(s, j) ==
    IF j = 0 THEN 0
    ELSE IF j > Cardinality(NewlinesOf(s)) THEN Len(s) + 1
    ELSE CHOOSE i \in NewlinesOf(s) :
             Cardinality({m \in NewlinesOf(s) : m < i}) = j - 1

Split(s) ==
    <<>> \o [j \in 1..(Cardinality(NewlinesOf(s)) + 1) |->
                SubSeq(s, NewlineAt(s, j - 1) + 1, NewlineAt(s, j) - 1)]

Range(f) == {f[i] : i \in DOMAIN f}

\* Lines 165-172: best_match_score over the paragraphs from position k on.
RECURSIVE BestFrom(_, _, _, _, _)
BestFrom(exp_text, paras, ratio, k, best) ==
    IF k > Len(paras) THEN best
    ELSE LET match_score == ratio[<<exp_text, paras[k]>>]
         IN  BestFrom(exp_text, paras, ratio, k + 1,
                      IF match_score > best THEN match_score ELSE best)

BestMatchScore(exp_text, paras, ratio) == BestFrom(exp_text, paras, ratio, 1, 0)

IsAddressed_Equal(best_match_score, threshold) == best_match_score = threshold

IsAddressed_Strict(best_match_score, threshold) == best_match_score > threshold

\* Line 175: if best_match_score >= 70
IsAddressed(best_match_score, threshold) == best_match_score >= threshold

CovInit ==
    /\ cov_expectations \in ExpectationLists
    /\ proposal_text \in ProposalTexts
    /\ partial_ratio \in [ExpectationTexts \X Range(Split(proposal_text)) -> Ratios]
    /\ cov_pc = "call"
    /\ cov_i = 0
    /\ proposal_paragraphs = <<>>
    /\ addressed = <<>>
    /\ missing = <<>>
    /\ cov_score = <<0, 1>>

CovIdle ==
    /\ cov_expectations = <<>>
    /\ proposal_text = <<>>
    /\ partial_ratio = <<>>
    /\ cov_pc = "idle"
    /\ cov_i = 0
    /\ proposal_paragraphs = <<>>
    /\ addressed = <<>>
    /\ missing = <<>>
    /\ cov_score = <<0, 1>>

\* Lines 159-161.
CovBegin ==
    /\ cov_pc = "call"
    /\ cov_pc' = "loop"
    /\ missing' = <<>>
    /\ addressed' = <<>>
    /\ proposal_paragraphs' = Split(proposal_text)
    /\ UNCHANGED <<cov_expectations, proposal_text, partial_ratio, cov_i, cov_score>>
    /\ UNCHANGED <<rfpVars, fmtVars, evVars, flowVars, procVars>>

\* Lines 164-178: the body of the for loop on one expectation; st holds the
\* lists addressed and missing.
CoverItem(st, exp, paras, ratio, threshold) ==
    IF IsAddressed(BestMatchScore(exp.expectation, paras, ratio), threshold)
    THEN [st EXCEPT !.addressed = Append(@, [expectation |-> exp])]
    ELSE [st EXCEPT !.missing = Append(@, [expectation |-> exp])]

\* Lines 163-178: one iteration of the for loop.
CovStep ==
    /\ cov_pc = "loop"
    /\ cov_i < Len(cov_expectations)
    /\ cov_i' = cov_i + 1
    /\ \E st \in {CoverItem([addressed |-> addressed, missing |-> missing],
                            cov_expectations[cov_i + 1], proposal_paragraphs,
                            partial_ratio, MatchThreshold)} :
           /\ addressed' = st.addressed
           /\ missing' = st.missing
    /\ UNCHANGED <<cov_expectations, proposal_text, partial_ratio, cov_pc,
                   proposal_paragraphs, cov_score>>
    /\ UNCHANGED <<rfpVars, fmtVars, evVars, flowVars, procVars>>

CoverageScore_NoEmptyGuard(n_addressed, n_expectations) ==
    <<n_addressed * 100, n_expectations>>

\* Line 180: (len(addressed) / len(expectations)) * 100 if expectations else 0,
\* as the fraction <<numerator, denominator>>.
CoverageScore(n_addressed, n_expectations) ==
    IF n_expectations # 0 THEN <<n_addressed * 100, n_expectations>> ELSE <<0, 1>>

\* Lines 180-181.
CovReturn ==
    /\ cov_pc = "loop"
    /\ cov_i = Len(cov_expectations)
    /\ cov_pc' = "done"
    /\ cov_score' = CoverageScore(Len(addressed), Len(cov_expectations))
    /\ UNCHANGED <<cov_expectations, proposal_text, partial_ratio, cov_i,
                   proposal_paragraphs, addressed, missing>>
    /\ UNCHANGED <<rfpVars, fmtVars, evVars, flowVars, procVars>>

CovNext == CovBegin \/ CovStep \/ CovReturn

\* Lines 163-178 as a whole: the for loop from expectation k on.
RECURSIVE CoverFrom(_, _, _, _, _, _)
CoverFrom(st, exps, paras, ratio, threshold, k) ==
    IF k > Len(exps) THEN st
    ELSE CoverFrom(CoverItem(st, exps[k], paras, ratio, threshold),
                   exps, paras, ratio, threshold, k + 1)

\* check_expectations_coverage as a whole, with the threshold of line 175 as
\* a parameter; the program calls it with MatchThreshold.
CheckExpectationsCoverage(exps, text, ratio, threshold) ==
    LET st == CoverFrom([addressed |-> <<>>, missing |-> <<>>],
                        exps, Split(text), ratio, threshold, 1)
    IN  [score |-> CoverageScore(Len(st.addressed), Len(exps)),
         addressed |-> st.addressed,
         missing |-> st.missing]

(***************************************************************************)
(* formatting_check (Combined.py).                                         *)
(***************************************************************************)
MaxSpellingIssues == 15

NoName == <<>>

Candara == <<"C","a","n","d","a","r","a">>

Arial == <<"A","r","i","a","l">>

ApprovedFonts == { <<"t","e","n","o","r","i","t","e">>, <<"c","a","n","d","a","r","a">> }

HeadingStyles == {"Heading 1", "Heading 2", "Heading 3"}

\* A paragraph holds no run or one run.
FontRunLists ==
    {<<>>} \cup {<<r>> : r \in [name : {NoName, Candara, Arial}, size : RunSizes]}

FmtDocs ==
    UNION {[1..n -> [text : { <<"t","e","h">> }, style : {"Normal", "Heading 1"},
                     runs : FontRunLists]] : n \in 0..MaxParas}

\* \w
IsWordChar(c) == IsCased(c) \/ c \in {"0","1","2","3","4","5","6","7","8","9"} \/ c = "_"

\* re.findall(r'\b\w+\b', s), as the set of distinct words.
WordsOf(s) ==
    LET starts == {i \in 1..Len(s) :
                      IsWordChar(s[i]) /\ (i = 1 \/ ~IsWordChar(s[i-1]))}
        EndOf(i) == CHOOSE j \in i..Len(s) :
                      /\ \A k \in i..j : IsWordChar(s[k])
                      /\ (j = Len(s) \/ ~IsWordChar(s[j+1]))
    IN  {SubSeq(s, i, EndOf(i)) : i \in starts}

\* Lines 252-253: the distinct words of the document, lower-cased.
DocWords(doc) == UNION {WordsOf(Lower(doc[p].text)) : p \in 1..Len(doc)}

\* Line 255: list(misspelled)[:15], as its length, for n unknown words.
Capped(n) == IF n > MaxSpellingIssues THEN MaxSpellingIssues ELSE n

\* Lines 258-262: the sizes of all runs that carry one, in document order.
RECURSIVE DocFontSizes(_)
DocFontSizes(doc) ==
    IF doc = <<>> THEN <<>>
    ELSE SelectSeq([i \in 1..Len(doc[1].runs) |-> doc[1].runs[i].size],
                   LAMBDA z : z # None)
         \o DocFontSizes(Tail(doc))

\* Line 264.
DocBodyFontSizes(doc) ==
    IF DocFontSizes(doc) # <<>> THEN ModalSizes(DocFontSizes(doc))
    ELSE {DefaultBodyFontSize}

\* Line 270: not (run.font.name and run.font.name.lower() not in [...])
FontNameOk(name) == name = NoName \/ Lower(name) \in ApprovedFonts

\* Lines 272-273: not (size and size != body and style not in headings)
FontSizeOk(size, body, style) ==
    size = None \/ size = body \/ style \in HeadingStyles

\* Lines 269-274: the inner loop over the runs of one paragraph, from run k
\* on; st holds font_ok and font_size_ok.
RECURSIVE FmtRunsFrom(_, _, _, _)
FmtRunsFrom(st, para, body, k) ==
    IF k > Len(para.runs) THEN st
    ELSE FmtRunsFrom(
            [font_ok |-> st.font_ok /\ FontNameOk(para.runs[k].name),
             font_size_ok |->
                st.font_size_ok /\ FontSizeOk(para.runs[k].size, body, para.style)],
            para, body, k + 1)

FmtInit ==
    /\ fmt_doc \in FmtDocs
    /\ fmt_pc = "call"
    /\ fmt_p = 0
    /\ fmt_body_font_size = None
    /\ spelling_issues = 0
    /\ font_ok = TRUE
    /\ font_size_ok = TRUE

FmtIdle ==
    /\ fmt_doc = <<>>
    /\ fmt_pc = "idle"
    /\ fmt_p = 0
    /\ fmt_body_font_size = None
    /\ spelling_issues = 0
    /\ font_ok = TRUE
    /\ font_size_ok = TRUE

\* Lines 251-267: the dictionary reports some of the document's words as
\* unknown; the body font size is chosen; both flags start true.
FmtBegin ==
    /\ fmt_pc = "call"
    /\ fmt_pc' = "loop"
    /\ \E n \in 0..Cardinality(DocWords(fmt_doc)) : spelling_issues' = Capped(n)
    /\ fmt_body_font_size' \in DocBodyFontSizes(fmt_doc)
    /\ font_ok' = TRUE
    /\ font_size_ok' = TRUE
    /\ UNCHANGED <<fmt_doc, fmt_p>>
    /\ UNCHANGED <<rfpVars, covVars, evVars, flowVars, procVars>>

\* Lines 268-276: one iteration of the loop over the paragraphs, with the
\* break that ends the loop once a flag is false.
FmtParagraph ==
    /\ fmt_pc = "loop"
    /\ fmt_p < Len(fmt_doc)
    /\ fmt_p' = fmt_p + 1
    /\ \E st \in {FmtRunsFrom([font_ok |-> font_ok, font_size_ok |-> font_size_ok],
                              fmt_doc[fmt_p + 1], fmt_body_font_size, 1)} :
           /\ font_ok' = st.font_ok
           /\ font_size_ok' = st.font_size_ok
           /\ fmt_pc' = IF ~st.font_ok \/ ~st.font_size_ok THEN "exit" ELSE "loop"
    /\ UNCHANGED <<fmt_doc, fmt_body_font_size, spelling_issues>>
    /\ UNCHANGED <<rfpVars, covVars, evVars, flowVars, procVars>>

\* Lines 278-282.
FmtReturn ==
    /\ \/ fmt_pc = "exit"
       \/ fmt_pc = "loop" /\ fmt_p = Len(fmt_doc)
    /\ fmt_pc' = "done"
    /\ UNCHANGED <<fmt_doc, fmt_p, fmt_body_font_size, spelling_issues, font_ok,
                   font_size_ok>>
    /\ UNCHANGED <<rfpVars, covVars, evVars, flowVars, procVars>>

FmtNext == FmtBegin \/ FmtParagraph \/ FmtReturn

\* Lines 268-276 as a whole: the loop over the paragraphs from paragraph k on.
RECURSIVE FmtParasFrom(_, _, _, _)
FmtParasFrom(st, doc, body, k) ==
    IF k > Len(doc) THEN st
    ELSE LET nxt == FmtRunsFrom(st, doc[k], body, 1)
         IN  IF ~nxt.font_ok \/ ~nxt.font_size_ok THEN nxt
             ELSE FmtParasFrom(nxt, doc, body, k + 1)

\* formatting_check as a whole, for n unknown words and the body size chosen.
FormattingCheck(doc, n, body) ==
    LET st == FmtParasFrom([font_ok |-> TRUE, font_size_ok |-> TRUE], doc, body, 1)
    IN  [spelling_issues |-> Capped(n),
         font_ok |-> st.font_ok,
         font_size_ok |-> st.font_size_ok]

(***************************************************************************)
(* String literals of evaluate_proposal.                                   *)
(***************************************************************************)
s_rec_font ==
    <<"D","o","c","u","m","e","n","t"," ","s","h","o","u","l","d"," ","u","s",
      "e"," ","f","o","n","t"," ","'","T","e","n","o","r","i","t","e","'"," ",
      "o","r"," ","'","C","a","n","d","a","r","a","'"," ","t","h","r","o","u",
      "g","h","o","u","t",".">>

s_rec_font_keep ==
    <<"D","o","c","u","m","e","n","t"," ","s","h","o","u","l","d"," ","u","s",
      "e"," ","f","o","n","t"," ","'","T","e","n","o","r","i","t","e","'"," ",
      "t","h","r","o","u","g","h","o","u","t",".">>

(***************************************************************************)
(* Proposal documents given to evaluate_proposal.                          *)
(***************************************************************************)
\* A paragraph naming every standard section.
TSections ==
    <<"T","a","b","l","e"," ","o","f"," ","c","o","n","t","e","n","t",","," ",
      "I","n","t","r","o","d","u","c","t","i","o","n",","," ","B","a","c","k",
      "g","r","o","u","n","d",","," ","O","b","j","e","c","t","i","v","e",",",
      " ","M","e","t","h","o","d","o","l","o","g","y",","," ","P","r","o","j",
      "e","c","t"," ","T","e","a","m",","," ","A","b","o","u","t"," ","S","a",
      "h","e","l",","," ","B","u","d","g","e","t",","," ","W","o","r","k"," ",
      "P","l","a","n">>

\* A methodology paragraph with every component.
TMethod ==
    <<"A","p","p","r","o","a","c","h",":"," ","p","r","o","j","e","c","t"," ",
      "k","i","c","k","-","o","f","f",","," ","p","r","o","j","e","c","t"," ",
      "i","n","c","e","p","t","i","o","n",","," ","d","e","s","k"," ","r","e",
      "v","i","e","w",","," ","d","a","t","a"," ","c","o","l","l","e","c","t",
      "i","o","n",","," ","d","a","t","a"," ","a","n","a","l","y","s","i","s",
      ","," ","d","a","t","a"," ","m","a","n","a","g","e","m","e","n","t",",",
      " ","r","e","p","o","r","t"," ","d","e","v","e","l","o","p","m","e","n",
      "t",","," ","d","e","l","i","v","e","r","a","b","l","e","s">>

\* A methodology paragraph with alternative component labels only, and many words.
TAlt ==
    <<"T","e","c","h","n","i","c","a","l"," ","a","p","p","r","o","a","c","h",
      ":"," ","p","r","o","j","e","c","t"," ","i","n","c","e","p","t","i","o",
      "n",","," ","o","u","t","p","u","t","s",","," ","t","e","h"," ","r","e",
      "c","i","e","v","e"," ","a","d","r","e","s","s"," ","o","c","c","u","r",
      "e","d"," ","s","e","p","e","r","a","t","e"," ","d","e","f","i","n","a",
      "t","e","l","y"," ","g","o","v","e","r","m","e","n","t"," ","u","n","t",
      "i","l","l"," ","w","i","c","h"," ","b","e","c","u","a","s","e">>

(***************************************************************************)
(* Exact arithmetic: a number is a fraction <<numerator, denominator>>     *)
(* with a positive denominator, kept in lowest terms.                      *)
(***************************************************************************)
RECURSIVE Gcd(_, _)
Gcd(a, b) == IF b = 0 THEN a ELSE Gcd(b, a % b)

Norm(f) ==
    LET g == Gcd(IF f[1] < 0 THEN -f[1] ELSE f[1], f[2]) IN <<f[1] \div g, f[2] \div g>>

FInt(n) == <<n, 1>>

FAdd(a, b) == Norm(<<a[1] * b[2] + b[1] * a[2], a[2] * b[2]>>)

FMul(a, b) == Norm(<<a[1] * b[1], a[2] * b[2]>>)

FLe(a, b) == a[1] * b[2] <= b[1] * a[2]

\* round(x) of a non-negative x: to the nearest integer, halves to even.
PyRound(f) ==
    LET q == f[1] \div f[2]
        r == f[1] % f[2]
    IN  IF 2 * r < f[2] THEN q
        ELSE IF 2 * r > f[2] THEN q + 1
        ELSE IF q % 2 = 0 THEN q ELSE q + 1

Max(a, b) == IF a >= b THEN a ELSE b

(***************************************************************************)
(* evaluate_proposal (Combined.py).                                        *)
(***************************************************************************)
\* a or b, on strings: a when it is non-empty, else b.
PyOr(a, b) == IF a # <<>> THEN a ELSE b

\* Lines 14-24.
STANDARD_SECTIONS ==
    << PyOr(PyOr(PyOr(<<"T","a","b","l","e"," ","o","f"," ","c","o","n","t","e","n","t">>, <<"T",
        "a","b","l","e"," ","o","f"," ","C","o","n","t","e","n","t","s">>), <<"c","o","n","t","e",
        "n","t","s">>), <<"C","o","n","t","e","n","t">>),
       <<"I","n","t","r","o","d","u","c","t","i","o","n">>,
       <<"B","a","c","k","g","r","o","u","n","d">>,
       <<"O","b","j","e","c","t","i","v","e">>,
       PyOr(PyOr(<<"M","e","t","h","o","d","o","l","o","g","y">>, <<"A","p","p","r","o","a","c","h"
           >>), <<"t","e","c","h","n","i","c","a","l"," ","a","p","p","r","o","a","c","h">>),
       <<"P","r","o","j","e","c","t"," ","T","e","a","m">>,
       <<"A","b","o","u","t"," ","S","a","h","e","l">>,
       <<"B","u","d","g","e","t">>,
       <<"W","o","r","k"," ","P","l","a","n">> >>

\* Lines 199-207.
methodology_components ==
    << PyOr(<<"p","r","o","j","e","c","t"," ","k","i","c","k","-","o","f","f">>, <<"p","r","o","j",
        "e","c","t"," ","i","n","c","e","p","t","i","o","n">>),
       <<"d","e","s","k"," ","r","e","v","i","e","w">>,
       <<"d","a","t","a"," ","c","o","l","l","e","c","t","i","o","n">>,
       <<"d","a","t","a"," ","a","n","a","l","y","s","i","s">>,
       <<"d","a","t","a"," ","m","a","n","a","g","e","m","e","n","t">>,
       <<"r","e","p","o","r","t"," ","d","e","v","e","l","o","p","m","e","n","t">>,
       PyOr(PyOr(<<"d","e","l","i","v","e","r","a","b","l","e","s">>, <<"o","u","t","p","u","t"
           >>), <<"o","u","t","p","u","t","s">>) >>

section_weight == <<35, 100>>

spelling_weight == <<20, 100>>

methodology_weight == <<25, 100>>

formatting_weight == <<20, 100>>

\* Style and runs of a paragraph: no run, an approved font at size 11, an
\* unapproved font at size 14.
EvalLayouts ==
    { [style |-> "Normal", runs |-> <<>>],
      [style |-> "Normal", runs |-> <<[name |-> Candara, size |-> 11]>>],
      [style |-> "Normal", runs |-> <<[name |-> Arial, size |-> 14]>>] }

EvalParagraphs ==
    {[text |-> t, style |-> l.style, runs |-> l.runs] : t \in {<<>>, TSections, TMethod, TAlt}, l \in EvalLayouts}

EvalDocs == UNION {[1..n -> EvalParagraphs] : n \in 0..MaxEvalParas}

\* Lists of required sections, without repeated labels.
RequiredLists ==
    { STANDARD_SECTIONS,
      << <<"A","p","p","r","o","a","c","h">>, <<"B","u","d","g","e","t">> >> }

\* Lines 186-189: section_results, in the order of required_sections.
SectionResults(doc, required) ==
    [i \in 1..Len(required) |->
        \E p \in 1..Len(doc) : Contains(Lower(required[i]), Lower(doc[p].text))]

\* Line 191: sum(section_results.values())
SectionScore(results) == Cardinality({i \in 1..Len(results) : results[i]})

\* Line 192: (section_score / len(required_sections)) * 100
SectionPercentage(results) ==
    FMul(<<SectionScore(results), Len(results)>>, FInt(100))

SpellScore_NoFloor(n_issues) ==
    IF n_issues = 0 THEN 100 ELSE 100 - n_issues * 10

\* Line 213.
SpellScore(n_issues) ==
    IF n_issues = 0 THEN 100 ELSE Max(0, 100 - n_issues * 10)

\* "\n".join(parts)
RECURSIVE JoinWith(_, _)
JoinWith(parts, sep) ==
    IF parts = <<>> THEN <<>>
    ELSE IF Len(parts) = 1 THEN parts[1]
    ELSE parts[1] \o sep \o JoinWith(Tail(parts), sep)

\* Lines 217-219.
MethodologyText(doc) ==
    Lower(JoinWith(SelectSeq([p \in 1..Len(doc) |-> doc[p].text],
                             LAMBDA t : \/ Contains(<<"m","e","t","h","o","d","o","l","o","g","y">>, Lower(t))
                                        \/ Contains(<<"a","p","p","r","o","a","c","h">>, Lower(t))),
                   <<NL>>))

\* Line 220, for the methodology_text of line 217.
MissingFrom(components, methodology_text) ==
    SelectSeq(components, LAMBDA comp : ~Contains(comp, methodology_text))

MissingComponents(doc) == MissingFrom(methodology_components, MethodologyText(doc))

\* Line 221.
MethodologyScore(n_missing) ==
    IF n_missing = 0 THEN 100 ELSE 100 - n_missing * 10

\* Lines 225-227.
FormattingScore(fr) ==
    <<(IF fr.font_ok THEN 100 ELSE 0) + (IF fr.font_size_ok THEN 100 ELSE 0), 2>>

TotalScore_Accumulating(results, fr, n_missing) ==
    FAdd(FAdd(FAdd(FAdd(total_score,
                        FMul(SectionPercentage(results), section_weight)),
                   FMul(FInt(SpellScore(fr.spelling_issues)), spelling_weight)),
              FMul(FInt(MethodologyScore(n_missing)), methodology_weight)),
         FInt(PyRound(FMul(FormattingScore(fr), formatting_weight))))

\* Lines 196-228: total_score.
TotalScore(results, fr, n_missing) ==
    FAdd(FAdd(FAdd(FAdd(FInt(0),
                        FMul(SectionPercentage(results), section_weight)),
                   FMul(FInt(SpellScore(fr.spelling_issues)), spelling_weight)),
              FMul(FInt(MethodologyScore(n_missing)), methodology_weight)),
         FInt(PyRound(FMul(FormattingScore(fr), formatting_weight))))

MissingSections_Present(required, results) ==
    LET idx == SelectSeq([i \in 1..Len(required) |-> i], LAMBDA i : results[i])
    IN  [k \in 1..Len(idx) |-> required[idx[k]]]

\* Line 230.
MissingSections(required, results) ==
    LET idx == SelectSeq([i \in 1..Len(required) |-> i], LAMBDA i : ~results[i])
    IN  [k \in 1..Len(idx) |-> required[idx[k]]]

\* Lines 231-241.  A recommendation is its text; the methodology line joins
\* set(missing_components), whose order is not fixed, so it is kept as the
\* text before the list and the set of title-cased names listed.
Recommendations(required, results, fr, missing_comps, font_text) ==
    (IF MissingSections(required, results) # <<>>
     THEN << [category |-> "sections",
              text |-> <<"K","i","n","d","l","y"," ","i","n","c","l","u","d","e"," ","t","h","e",
                  " ","f","o","l","l","o","w","i","n","g"," ","m","i","s","s","i","n","g"," ","s",
                  "e","c","t","i","o","n","s",":"," ">>
                         \o JoinWith(MissingSections(required, results), <<","," ">>),
              items |-> {}] >>
     ELSE <<>>)
    \o (IF fr.spelling_issues # 0
        THEN << [category |-> "spelling", text |-> <<"S","p","e","l","l","i","n","g"," ","i","s",
            "s","u","e","s"," ","f","o","u","n","d"," ","i","n"," ","t","h","e"," ","d","o","c","u",
            "m","e","n","t",".">>, items |-> {}] >>
        ELSE <<>>)
    \o (IF ~fr.font_ok
        THEN << [category |-> "font", text |-> font_text, items |-> {}] >>
        ELSE <<>>)
    \o (IF ~fr.font_size_ok
        THEN << [category |-> "size", text |-> <<"B","o","d","y"," ","t","e","x","t"," ","s","h",
            "o","u","l","d"," ","u","s","e"," ","f","o","n","t"," ","s","i","z","e"," ","1","1","."
            >>, items |-> {}] >>
        ELSE <<>>)
    \o (IF missing_comps # <<>>
        THEN << [category |-> "methodology",
                 text |-> <<"T","h","e"," ","m","e","t","h","o","d","o","l","o","g","y"," ","s","e",
                     "c","t","i","o","n"," ","i","s"," ","m","i","s","s","i","n","g"," ","t","h",
                     "e"," ","f","o","l","l","o","w","i","n","g"," ","c","o","m","p","o","n","e",
                     "n","t","s",":"," ">>,
                 items |-> {Title(missing_comps[i]) : i \in 1..Len(missing_comps)}] >>
        ELSE <<>>)

\* Numbers of unknown words the spell checker may report: none, one, the ten
\* that bring spell_score to 0, the fifteen kept, and more than are kept.
UnknownCounts == {0, 1, 10, MaxSpellingIssues, MaxSpellingIssues + 1}

EvInit ==
    /\ ev_doc \in EvalDocs
    /\ required_sections \in RequiredLists
    /\ ev_pc = "call"
    /\ section_results = <<>>
    /\ formatting_results = [spelling_issues |-> 0, font_ok |-> TRUE, font_size_ok |-> TRUE]
    /\ missing_components = <<>>
    /\ total_score = <<0, 1>>
    /\ recommendations = <<>>
    /\ unknown_words \in {n \in UnknownCounts : n <= Cardinality(DocWords(ev_doc))}
    /\ modal_size \in DocBodyFontSizes(ev_doc)
    /\ first_result = <<>>

EvIdle ==
    /\ ev_doc = <<>>
    /\ required_sections = <<>>
    /\ ev_pc = "idle"
    /\ section_results = <<>>
    /\ formatting_results = [spelling_issues |-> 0, font_ok |-> TRUE, font_size_ok |-> TRUE]
    /\ missing_components = <<>>
    /\ total_score = <<0, 1>>
    /\ recommendations = <<>>
    /\ unknown_words = 0
    /\ modal_size = DefaultBodyFontSize
    /\ first_result = <<>>

\* Lines 186-192 (Combined_keep.py lines 147-153 are the same).
EvSections ==
    /\ ev_pc = "call"
    /\ ev_pc' = "sections"
    /\ section_results' = SectionResults(ev_doc, required_sections)
    /\ UNCHANGED <<ev_doc, required_sections, formatting_results, missing_components,
                   total_score, recommendations,
                   unknown_words, modal_size, first_result>>
    /\ UNCHANGED <<rfpVars, covVars, fmtVars, flowVars, procVars>>

\* Line 194: formatting_results = formatting_check(doc).
EvFormatting ==
    /\ ev_pc = "sections"
    /\ ev_pc' = "formatted"
    /\ formatting_results' = FormattingCheck(ev_doc, unknown_words, modal_size)
    /\ UNCHANGED <<ev_doc, required_sections, section_results, missing_components,
                   total_score, recommendations,
                   unknown_words, modal_size, first_result>>
    /\ UNCHANGED <<rfpVars, covVars, fmtVars, flowVars, procVars>>

\* Lines 196-228.
EvScore ==
    /\ ev_pc = "formatted"
    /\ ev_pc' = "scored"
    /\ \E missing_comps \in {MissingComponents(ev_doc)} :
           /\ missing_components' = missing_comps
           /\ total_score' =
                 TotalScore(section_results, formatting_results, Len(missing_comps))
    /\ UNCHANGED <<ev_doc, required_sections, section_results, formatting_results,
                   recommendations,
                   unknown_words, modal_size, first_result>>
    /\ UNCHANGED <<rfpVars, covVars, fmtVars, flowVars, procVars>>

\* Lines 230-248.
EvReturn ==
    /\ ev_pc = "scored"
    /\ ev_pc' = "done"
    /\ recommendations' =
          Recommendations(required_sections, section_results, formatting_results,
                          missing_components, s_rec_font)
    /\ UNCHANGED <<ev_doc, required_sections, section_results, formatting_results,
                   missing_components, total_score,
                   unknown_words, modal_size, first_result>>
    /\ UNCHANGED <<rfpVars, covVars, fmtVars, flowVars, procVars>>

\* The caller keeps the result and calls evaluate_proposal again with the
\* same arguments.
EvAgain ==
    /\ ev_pc = "done"
    /\ first_result = <<>>
    /\ ev_pc' = "call"
    /\ first_result' = << [doc |-> ev_doc,
                           required_sections |-> required_sections,
                           sections |-> section_results,
                           score |-> total_score,
                           recommendations |-> recommendations,
                           formatting |-> formatting_results] >>
    /\ UNCHANGED <<ev_doc, required_sections, section_results, formatting_results,
                   missing_components, total_score, recommendations, unknown_words,
                   modal_size>>
    /\ UNCHANGED <<rfpVars, covVars, fmtVars, flowVars, procVars>>

EvNext == EvSections \/ EvFormatting \/ EvScore \/ EvReturn \/ EvAgain

(***************************************************************************)
(* evaluate_proposal and formatting_check (Combined_keep.py).              *)
(***************************************************************************)
KeepFontSize == 11

\* Lines 245-249 of Combined_keep.py: the inner loop over the runs of one
\* paragraph, from run k on.
RECURSIVE KeepRunsFrom(_, _, _)
KeepRunsFrom(st, para, k) ==
    IF k > Len(para.runs) THEN st
    ELSE KeepRunsFrom(
            [font_ok |->
                st.font_ok /\ (para.runs[k].name = NoName
                               \/ Lower(para.runs[k].name) = <<"t","e","n","o","r","i","t","e">>),
             font_size_ok |->
                st.font_size_ok /\ (para.runs[k].size = None
                                    \/ para.runs[k].size = KeepFontSize
                                    \/ para.style \in HeadingStyles)],
            para, k + 1)

\* Lines 243-251 of Combined_keep.py: the loop over the paragraphs, with its
\* break.
RECURSIVE KeepParasFrom(_, _, _)
KeepParasFrom(st, doc, k) ==
    IF k > Len(doc) THEN st
    ELSE LET nxt == KeepRunsFrom(st, doc[k], 1)
         IN  IF ~nxt.font_ok \/ ~nxt.font_size_ok THEN nxt
             ELSE KeepParasFrom(nxt, doc, k + 1)

\* formatting_check of Combined_keep.py, for n unknown words.
FormattingCheckKeep(doc, n) ==
    LET st == KeepParasFrom([font_ok |-> TRUE, font_size_ok |-> TRUE], doc, 1)
    IN  [spelling_issues |-> Capped(n),
         font_ok |-> st.font_ok,
         font_size_ok |-> st.font_size_ok]

\* Lines 161-168 of Combined_keep.py.
keep_methodology_components_first ==
    << PyOr(<<"p","r","o","j","e","c","t"," ","k","i","c","k","-","o","f","f">>, <<"p","r","o","j",
        "e","c","t"," ","i","n","c","e","p","t","i","o","n">>),
       <<"d","e","s","k"," ","r","e","v","i","e","w">>,
       <<"d","a","t","a"," ","c","o","l","l","e","c","t","i","o","n">>,
       <<"d","a","t","a"," ","a","n","a","l","y","s","i","s">>,
       <<"d","a","t","a"," ","m","a","n","a","g","e","m","e","n","t">>,
       <<"r","e","p","o","r","t"," ","d","e","v","e","l","o","p","m","e","n","t">>,
       PyOr(PyOr(PyOr(<<"D","e","l","i","v","e","r","a","b","l","e","s">>, <<"D","e","l","i","v",
           "e","r","a","b","l","e">>), <<"o","u","t","p","u","t">>), <<"o","u","t","p","u","t","s"
           >>) >>

\* Lines 193-199 of Combined_keep.py.
keep_methodology_components ==
    << <<"p","r","o","j","e","c","t"," ","k","i","c","k","-","o","f","f">>,
       <<"p","r","o","j","e","c","t"," ","i","n","c","e","p","t","i","o","n">>,
       <<"d","e","s","k"," ","r","e","v","i","e","w">>,
       <<"d","a","t","a"," ","c","o","l","l","e","c","t","i","o","n">>,
       <<"d","a","t","a"," ","a","n","a","l","y","s","i","s">>,
       <<"d","a","t","a"," ","m","a","n","a","g","e","m","e","n","t">>,
       <<"r","e","p","o","r","t"," ","d","e","v","e","l","o","p","m","e","n","t">> >>

\* Line 181 of Combined_keep.py: 100 if methodology_components else 0.
KeepMethodologyScore == IF keep_methodology_components_first # <<>> THEN 100 ELSE 0

\* Lines 157-190 of Combined_keep.py.
KeepTotalScore(results, fr) ==
    FAdd(FAdd(FAdd(FAdd(FInt(0),
                        FMul(SectionPercentage(results), section_weight)),
                   FMul(FInt(SpellScore(fr.spelling_issues)), spelling_weight)),
              FMul(FInt(KeepMethodologyScore), methodology_weight)),
         FInt(PyRound(FMul(FormattingScore(fr), formatting_weight))))

\* Line 213 of Combined_keep.py: the condition
\* "methodology" or "Approach" or "technical approach" in para.text.lower()
\* is the non-empty string "methodology", which is true of every paragraph.
KeepSelected(t) ==
    \/ <<"m","e","t","h","o","d","o","l","o","g","y">> # <<>>
    \/ <<"A","p","p","r","o","a","c","h">> # <<>>
    \/ Contains(<<"t","e","c","h","n","i","c","a","l"," ","a","p","p","r","o","a","c","h">>, Lower(t))

\* Lines 212-214 of Combined_keep.py.
KeepMethodologyText(doc) ==
    Lower(JoinWith(SelectSeq([p \in 1..Len(doc) |-> doc[p].text], KeepSelected), <<NL>>))

\* Lines 216-219 of Combined_keep.py.
KeepMissingComponents(doc) ==
    MissingFrom(keep_methodology_components, KeepMethodologyText(doc))

\* Line 155 of Combined_keep.py.
EvFormattingKeep ==
    /\ ev_pc = "sections"
    /\ ev_pc' = "formatted"
    /\ formatting_results' = FormattingCheckKeep(ev_doc, unknown_words)
    /\ UNCHANGED <<ev_doc, required_sections, section_results, missing_components,
                   total_score, recommendations,
                   unknown_words, modal_size, first_result>>
    /\ UNCHANGED <<rfpVars, covVars, fmtVars, flowVars, procVars>>

\* Lines 157-190 of Combined_keep.py.
EvScoreKeep ==
    /\ ev_pc = "formatted"
    /\ ev_pc' = "scored"
    /\ total_score' = KeepTotalScore(section_results, formatting_results)
    /\ UNCHANGED <<ev_doc, required_sections, section_results, formatting_results,
                   missing_components, recommendations,
                   unknown_words, modal_size, first_result>>
    /\ UNCHANGED <<rfpVars, covVars, fmtVars, flowVars, procVars>>

\* Lines 192-231 of Combined_keep.py.
EvReturnKeep ==
    /\ ev_pc = "scored"
    /\ ev_pc' = "done"
    /\ \E missing_comps \in {KeepMissingComponents(ev_doc)} :
           /\ missing_components' = missing_comps
           /\ recommendations' =
                 Recommendations(required_sections, section_results,
                                 formatting_results, missing_comps, s_rec_font_keep)
    /\ UNCHANGED <<ev_doc, required_sections, section_results, formatting_results,
                   total_score,
                   unknown_words, modal_size, first_result>>
    /\ UNCHANGED <<rfpVars, covVars, fmtVars, flowVars, procVars>>

EvNextKeep == EvSections \/ EvFormattingKeep \/ EvScoreKeep \/ EvReturnKeep

(***************************************************************************)
(* The Combined.py script: one run per user interaction (lines 362-475).   *)
(***************************************************************************)
\* A name that is not bound, and the value None: the empty sequence; a bound
\* value v is <<v>>.
Unbound == <<>>

PyNone == <<>>

Just(v) == <<v>>

IsWhitespace(c) == c \in {" ", NL, "\t", "\r"}

\* str.strip()
Strip(s) ==
    LET keep == {i \in 1..Len(s) : ~IsWhitespace(s[i])}
    IN  IF keep = {} THEN <<>>
        ELSE LET lo == CHOOSE i \in keep : \A j \in keep : i <= j
                 hi == CHOOSE i \in keep : \A j \in keep : i >= j
             IN  SubSeq(s, lo, hi)

\* Documents a valid proposal file may hold.
FlowDocs ==
    { <<>>,
      << [text |-> TAlt, style |-> "Normal",
          runs |-> <<[name |-> Arial, size |-> 14]>>] >>,
      << [text |-> TSections, style |-> "Normal",
          runs |-> <<[name |-> Candara, size |-> 11]>>],
         [text |-> TMethod, style |-> "Normal",
          runs |-> <<[name |-> Candara, size |-> 11]>>] >> }

\* An uploaded proposal: whether its name ends with ".docx", whether
\* python-docx can open it, and the document it holds when it can.
ProposalFiles ==
    [docx_name : BOOLEAN, valid : {TRUE}, doc : FlowDocs]
    \cup [docx_name : BOOLEAN, valid : {FALSE}, doc : {<<>>}]

\* An uploaded RFP: the ending of its name (".docx", ".pdf" or another one),
\* whether its decoder can open it, and the runs it holds when it can.
RfpFiles ==
    [ext : {"docx", "pdf", "other"}, valid : {TRUE},
     runs :
       { <<>>,
         << [text |-> <<" ","G","o","a","l"," ">>, bold |-> FALSE, font_size |-> 11] >>,
         << [text |-> <<"S","c","o","p","e",":">>, bold |-> TRUE, font_size |-> None],
            [text |-> <<"b","u","d","g","e","t">>, bold |-> FALSE, font_size |-> 11],
            [text |-> <<"G","O","A","L">>, bold |-> FALSE, font_size |-> 11] >> }]
    \cup [ext : {"docx", "pdf", "other"}, valid : {FALSE}, runs : {<<>>}]

\* Lines 27-44: extract_text; the exception it raises, if any, and the text.
ExtractText(file) ==
    IF ~file.docx_name
    THEN [raised |-> Just("ValueError"), text |-> <<>>]
    ELSE IF ~file.valid
    THEN [raised |-> Just("ValueError"), text |-> <<>>]
    ELSE [raised |-> <<>>,
          text |-> JoinWith([p \in 1..Len(file.doc) |->
                                Lower(Strip(file.doc[p].text)) \o <<NL>>], <<>>)]

\* Lines 54-107: extract_text_with_formatting.
ExtractTextWithFormatting(file) ==
    IF file.ext = "docx"
    THEN IF ~file.valid
         THEN [raised |-> Just("ValueError"), items |-> <<>>]
         ELSE [raised |-> <<>>,
               items |-> [i \in 1..Len(file.runs) |->
                            [text |-> Lower(Strip(file.runs[i].text)),
                             bold |-> file.runs[i].bold,
                             font_size |-> file.runs[i].font_size]]]
    ELSE IF file.ext = "pdf"
    THEN IF ~file.valid
         THEN [raised |-> Just("FileDataError"), items |-> <<>>]
         ELSE [raised |-> <<>>,
               items |-> [i \in 1..Len(file.runs) |->
                            [text |-> Lower(Strip(file.runs[i].text)),
                             bold |-> FALSE,
                             font_size |-> file.runs[i].font_size]]]
    ELSE [raised |-> Just("ValueError"), items |-> <<>>]

\* Lines 136-153 as a whole: the for loop from item k on.
RECURSIVE ScanFrom(_, _, _, _)
ScanFrom(st, items, body, k) ==
    IF k > Len(items) THEN st
    ELSE ScanFrom(ScanItem(st, items[k], body), items, body, k + 1)

\* extract_rfp_expectations as a whole, for the body font size chosen.
ExtractRfpExpectations(items, body) ==
    ScanFrom([current_section |-> General, seen_expectations |-> {},
              expectations |-> <<>>], items, body, 1).expectations

\* evaluate_proposal as a whole, for n unknown words and the body font size
\* chosen in formatting_check.
EvaluateProposal(doc, required, n, body) ==
    LET results == SectionResults(doc, required)
        fr == FormattingCheck(doc, n, body)
        missing_comps == MissingComponents(doc)
    IN  [sections |-> results,
         score |-> TotalScore(results, fr, Len(missing_comps)),
         recommendations |-> Recommendations(required, results, fr, missing_comps,
                                             s_rec_font),
         formatting |-> fr]

CaughtByExcept_ValueErrorOnly(exc) == exc = "ValueError"

\* except ValueError ... except Exception: every exception the calls raise
\* derives from Exception.
CaughtByExcept(exc) ==
    exc = "ValueError" \/ exc \in {"NameError", "FileDataError", "PackageNotFoundError",
                                   "TypeError"}

\* Lines 363-371: the widgets, and the names the script initialises.
FlowInit ==
    /\ uploaded_proposal \in {PyNone} \cup {Just(f) : f \in ProposalFiles}
    /\ uploaded_rfp \in {PyNone} \cup {Just(f) : f \in RfpFiles}
    /\ button \in BOOLEAN
    /\ flow_pc = "extract"
    /\ prop_text = Unbound
    /\ flow_doc = Unbound
    /\ rfp_expectations = Unbound
    /\ evaluation = PyNone
    /\ rfp_score = PyNone
    /\ rfp_missing = <<>>
    /\ rfp_addressed = <<>>
    /\ org_score = PyNone
    /\ errors = <<>>
    /\ unhandled = <<>>
    /\ shown = {}

FlowIdle ==
    /\ uploaded_proposal = PyNone
    /\ uploaded_rfp = PyNone
    /\ button = FALSE
    /\ flow_pc = "idle"
    /\ prop_text = Unbound
    /\ flow_doc = Unbound
    /\ rfp_expectations = Unbound
    /\ evaluation = PyNone
    /\ rfp_score = PyNone
    /\ rfp_missing = <<>>
    /\ rfp_addressed = <<>>
    /\ org_score = PyNone
    /\ errors = <<>>
    /\ unhandled = <<>>
    /\ shown = {}

\* Lines 374-380: with a proposal uploaded, extract_text in its try block;
\* without one the script goes on to the results section.
FlowExtractText ==
    /\ flow_pc = "extract"
    /\ IF uploaded_proposal = PyNone
       THEN /\ flow_pc' = "display"
            /\ UNCHANGED <<prop_text, errors, unhandled>>
       ELSE \E r \in {ExtractText(uploaded_proposal[1])} :
               IF r.raised = <<>>
               THEN /\ flow_pc' = "button"
                    /\ prop_text' = Just(r.text)
                    /\ UNCHANGED <<errors, unhandled>>
               ELSE IF CaughtByExcept(r.raised[1])
               THEN /\ flow_pc' = "button"
                    /\ errors' = Append(errors, "extract_text")
                    /\ UNCHANGED <<prop_text, unhandled>>
               ELSE /\ flow_pc' = "crashed"
                    /\ unhandled' = r.raised
                    /\ UNCHANGED <<prop_text, errors>>
    /\ UNCHANGED <<uploaded_proposal, uploaded_rfp, button, flow_doc, rfp_expectations,
                   evaluation, rfp_score, rfp_missing, rfp_addressed, org_score,
                   shown>>
    /\ UNCHANGED <<rfpVars, covVars, fmtVars, evVars, procVars>>

\* Lines 382-384: the button, and Document(uploaded_proposal), which is in no
\* try block.
FlowButton ==
    /\ flow_pc = "button"
    /\ IF ~button
       THEN /\ flow_pc' = "display"
            /\ UNCHANGED <<flow_doc, unhandled>>
       ELSE IF uploaded_proposal[1].valid
       THEN /\ flow_pc' = "rfp"
            /\ flow_doc' = Just(uploaded_proposal[1].doc)
            /\ UNCHANGED unhandled
       ELSE /\ flow_pc' = "crashed"
            /\ unhandled' = Just("PackageNotFoundError")
            /\ UNCHANGED flow_doc
    /\ UNCHANGED <<uploaded_proposal, uploaded_rfp, button, prop_text,
                   rfp_expectations, evaluation, rfp_score, rfp_missing,
                   rfp_addressed, org_score, errors, shown>>
    /\ UNCHANGED <<rfpVars, covVars, fmtVars, evVars, procVars>>

\* Lines 387-395: with an RFP uploaded, its extraction in a try block.
FlowRfp ==
    /\ flow_pc = "rfp"
    /\ IF uploaded_rfp = PyNone
       THEN /\ flow_pc' = "evaluate"
            /\ UNCHANGED <<rfp_expectations, errors, unhandled>>
       ELSE \E r \in {ExtractTextWithFormatting(uploaded_rfp[1])} :
               IF r.raised = <<>>
               THEN /\ flow_pc' = "coverage"
                    /\ \E body \in BodyFontSizes(r.items) :
                          rfp_expectations' =
                              Just(ExtractRfpExpectations(r.items, body))
                    /\ UNCHANGED <<errors, unhandled>>
               ELSE IF CaughtByExcept(r.raised[1])
               THEN /\ flow_pc' = "coverage"
                    /\ errors' = Append(errors, "rfp")
                    /\ UNCHANGED <<rfp_expectations, unhandled>>
               ELSE /\ flow_pc' = "crashed"
                    /\ unhandled' = r.raised
                    /\ UNCHANGED <<rfp_expectations, errors>>
    /\ UNCHANGED <<uploaded_proposal, uploaded_rfp, button, prop_text, flow_doc,
                   evaluation, rfp_score, rfp_missing, rfp_addressed, org_score,
                   shown>>
    /\ UNCHANGED <<rfpVars, covVars, fmtVars, evVars, procVars>>

\* Lines 397-403: check_expectations_coverage in a try block; reading a name
\* that is not bound raises NameError before the call is made.
FlowCoverage ==
    /\ flow_pc = "coverage"
    /\ IF rfp_expectations = Unbound \/ prop_text = Unbound
       THEN IF CaughtByExcept("NameError")
            THEN /\ flow_pc' = "evaluate"
                 /\ errors' = Append(errors, "coverage")
                 /\ UNCHANGED <<rfp_score, rfp_addressed, rfp_missing, unhandled>>
            ELSE /\ flow_pc' = "crashed"
                 /\ unhandled' = Just("NameError")
                 /\ UNCHANGED <<rfp_score, rfp_addressed, rfp_missing, errors>>
       ELSE \E ratio \in [{rfp_expectations[1][i].expectation :
                              i \in 1..Len(rfp_expectations[1])}
                          \X Range(Split(prop_text[1])) -> Ratios] :
            \E r \in {CheckExpectationsCoverage(rfp_expectations[1], prop_text[1],
                                                ratio, MatchThreshold)} :
               /\ flow_pc' = "evaluate"
               /\ rfp_score' = Just(r.score)
               /\ rfp_addressed' = r.addressed
               /\ rfp_missing' = r.missing
               /\ UNCHANGED <<errors, unhandled>>
    /\ UNCHANGED <<uploaded_proposal, uploaded_rfp, button, prop_text, flow_doc,
                   rfp_expectations, evaluation, org_score, shown>>
    /\ UNCHANGED <<rfpVars, covVars, fmtVars, evVars, procVars>>

\* Lines 406-408: evaluate_proposal, in no try block.
FlowEvaluate ==
    /\ flow_pc = "evaluate"
    /\ IF prop_text = Unbound
       THEN /\ flow_pc' = "crashed"
            /\ unhandled' = Just("NameError")
            /\ UNCHANGED <<evaluation, org_score>>
       ELSE \E n \in 0..Cardinality(DocWords(flow_doc[1])) :
            \E body \in DocBodyFontSizes(flow_doc[1]) :
            \E r \in {EvaluateProposal(flow_doc[1], STANDARD_SECTIONS, n, body)} :
               /\ flow_pc' = "display"
               /\ evaluation' = Just(r)
               /\ org_score' = Just(r.score)
               /\ UNCHANGED unhandled
    /\ UNCHANGED <<uploaded_proposal, uploaded_rfp, button, prop_text, flow_doc,
                   rfp_expectations, rfp_score, rfp_missing, rfp_addressed, errors,
                   shown>>
    /\ UNCHANGED <<rfpVars, covVars, fmtVars, evVars, procVars>>

\* Lines 411-464: what the results section shows.
FlowDisplay ==
    /\ flow_pc = "display"
    /\ IF evaluation # PyNone \/ rfp_score # PyNone
       THEN /\ flow_pc' = "report"
            /\ shown' = (IF rfp_score # PyNone THEN {"rfp_score"} ELSE {})
                        \cup (IF evaluation # PyNone THEN {"evaluation"} ELSE {})
       ELSE /\ flow_pc' = "end"
            /\ UNCHANGED shown
    /\ UNCHANGED <<uploaded_proposal, uploaded_rfp, button, prop_text, flow_doc,
                   rfp_expectations, evaluation, rfp_score, rfp_missing,
                   rfp_addressed, org_score, errors, unhandled>>
    /\ UNCHANGED <<rfpVars, covVars, fmtVars, evVars, procVars>>

\* Lines 466-475: create_word_report(evaluation, rfp_score, rfp_missing), which
\* subscripts evaluation (lines 290-315).
FlowReport ==
    /\ flow_pc = "report"
    /\ IF evaluation = PyNone
       THEN /\ flow_pc' = "crashed"
            /\ unhandled' = Just("TypeError")
            /\ UNCHANGED shown
       ELSE /\ flow_pc' = "end"
            /\ shown' = shown \cup {"report"}
            /\ UNCHANGED unhandled
    /\ UNCHANGED <<uploaded_proposal, uploaded_rfp, button, prop_text, flow_doc,
                   rfp_expectations, evaluation, rfp_score, rfp_missing,
                   rfp_addressed, org_score, errors>>
    /\ UNCHANGED <<rfpVars, covVars, fmtVars, evVars, procVars>>

FlowRerun_NamesSurvive ==
    /\ flow_pc \in {"end", "crashed"}
    /\ uploaded_proposal' \in {PyNone} \cup {Just(f) : f \in ProposalFiles}
    /\ uploaded_rfp' \in {PyNone} \cup {Just(f) : f \in RfpFiles}
    /\ button' \in BOOLEAN
    /\ flow_pc' = "extract"
    /\ prop_text' = Unbound
    /\ flow_doc' = Unbound
    /\ rfp_expectations' = Unbound
    /\ evaluation' = PyNone
    /\ org_score' = PyNone
    /\ errors' = <<>>
    /\ unhandled' = <<>>
    /\ shown' = {}
    /\ UNCHANGED <<rfp_score, rfp_missing, rfp_addressed>>
    /\ UNCHANGED <<rfpVars, covVars, fmtVars, evVars, procVars>>

\* The next interaction runs the script again from the top: new widget
\* values, every name of the script fresh.
FlowRerun ==
    /\ flow_pc \in {"end", "crashed"}
    /\ uploaded_proposal' \in {PyNone} \cup {Just(f) : f \in ProposalFiles}
    /\ uploaded_rfp' \in {PyNone} \cup {Just(f) : f \in RfpFiles}
    /\ button' \in BOOLEAN
    /\ flow_pc' = "extract"
    /\ prop_text' = Unbound
    /\ flow_doc' = Unbound
    /\ rfp_expectations' = Unbound
    /\ evaluation' = PyNone
    /\ rfp_score' = PyNone
    /\ rfp_missing' = <<>>
    /\ rfp_addressed' = <<>>
    /\ org_score' = PyNone
    /\ errors' = <<>>
    /\ unhandled' = <<>>
    /\ shown' = {}
    /\ UNCHANGED <<rfpVars, covVars, fmtVars, evVars, procVars>>

FlowNext ==
    \/ FlowExtractText
    \/ FlowButton
    \/ FlowRfp
    \/ FlowCoverage
    \/ FlowEvaluate
    \/ FlowDisplay
    \/ FlowReport
    \/ FlowRerun

(***************************************************************************)
(* process_rfp and extract_sentences_with_keywords (Combined_keep.py).     *)
(***************************************************************************)
\* Lines 91-96: the keyword lists, in the order lines 106-111 use them.
category_keywords ==
    << { <<"S","c","o","p","e">>,
         <<"D","e","s","c","r","i","p","t","i","o","n">>,
         <<"O","b","j","e","c","t","i","v","e">>,
         <<"G","o","a","l","s">>,
         <<"D","e","l","i","v","e","r","a","b","l","e","s">>,
         <<"S","t","a","t","e","m","e","n","t"," ","o","f"," ","W","o","r","k">> },
       { <<"M","e","t","h","o","d","o","l","o","g","y">>,
         <<"A","p","p","r","o","a","c","h">>,
         <<"S","t","r","a","t","e","g","y">>,
         <<"I","m","p","l","e","m","e","n","t","a","t","i","o","n">>,
         <<"F","r","a","m","e","w","o","r","k">>,
         <<"T","e","c","h","n","i","q","u","e","s">> },
       { <<"E","l","i","g","i","b","i","l","i","t","y">>,
         <<"E","l","i","g","i","b","l","e">>,
         <<"A","p","p","l","i","c","a","n","t","s">>,
         <<"W","h","o"," ","c","a","n"," ","a","p","p","l","y">>,
         <<"R","e","q","u","i","r","e","m","e","n","t","s">>,
         <<"Q","u","a","l","i","f","i","c","a","t","i","o","n","s">>,
         <<"C","r","i","t","e","r","i","a">> },
       { <<"B","u","d","g","e","t">>,
         <<"F","u","n","d","i","n","g">>,
         <<"C","o","s","t">>,
         <<"F","i","n","a","n","c","i","a","l">>,
         <<"E","x","p","e","n","s","e","s">> },
       { <<"D","e","a","d","l","i","n","e">>,
         <<"S","u","b","m","i","s","s","i","o","n">>,
         <<"D","u","e"," ","D","a","t","e">>,
         <<"C","l","o","s","i","n","g"," ","D","a","t","e">> },
       { <<"S","e","l","e","c","t","i","o","n">>,
         <<"W","e","i","g","h","t","i","n","g">>,
         <<"J","u","d","g","i","n","g">>,
         <<"M","e","t","r","i","c","s">>,
         <<"D","e","c","i","s","i","o","n">> } >>

\* Texts an uploaded RFP may decode to: up to MaxSentences pieces, among them
\* a sentence with keywords of two categories, a keyword inside a longer
\* word, a piece ending in a line break and a piece without end mark.
ProcTexts ==
    LET pieces == { <<"S","c","o","p","e","."," ">>,
                <<"B","u","d","g","e","t"," ","s","c","o","p","e","!"," ">>,
                <<"C","o","s","t","s"," ","d","u","e"," ","d","a","t","e","?","\n">>,
                <<"N","o"," ","m","a","t","c","h","."," ">>,
                <<" ","a","p","p","r","o","a","c","h"," "," ">> }
    IN  UNION {{JoinWith(t, <<>>) : t \in [1..n -> pieces]} : n \in 0..MaxSentences}

\* Line 36: re.sub(r"[\x00-\x1F\x7F]", "", text); the control characters of
\* the alphabet are the line break, the tab and the carriage return.
CleanText(s) == SelectSeq(s, LAMBDA c : c \notin {NL, "\t", "\r"})

\* Line 39: re.split(r'(?<=[.!?])\s+', text): the text is cut at every run of
\* white space that directly follows an end mark; the run is dropped.
SplitSentences(s) ==
    LET cuts == {i \in 2..Len(s) :
                    IsWhitespace(s[i]) /\ s[i-1] \in {".", "!", "?"}}
        CutAt(j) == CHOOSE i \in cuts : Cardinality({m \in cuts : m < i}) = j - 1
        EndOf(i) == CHOOSE j \in i..Len(s) :
                      /\ \A k \in i..j : IsWhitespace(s[k])
                      /\ (j = Len(s) \/ ~IsWhitespace(s[j+1]))
        n == Cardinality(cuts)
    IN  <<>> \o [j \in 1..(n + 1) |->
                    SubSeq(s,
                           IF j = 1 THEN 1 ELSE EndOf(CutAt(j - 1)) + 1,
                           IF j = n + 1 THEN Len(s) ELSE CutAt(j) - 1)]

\* Lines 40 and 43: keyword_pattern.search(sentence), a whole-word match of
\* one of the keywords whatever the case.
KeywordSearch(sentence, kws) ==
    \E low \in {Lower(sentence)} : \E k \in {Lower(kw) : kw \in kws} :
        \E i \in 1..(Len(sentence) - Len(k) + 1) :
            /\ \A j \in 1..Len(k) : low[i + j - 1] = k[j]
            /\ (i = 1 \/ ~IsWordChar(sentence[i-1]))
            /\ (i + Len(k) > Len(sentence) \/ ~IsWordChar(sentence[i + Len(k)]))

ExtractSentence_NoAdd(sentence, kws, st) ==
    IF KeywordSearch(sentence, kws) /\ Strip(sentence) \notin st.assigned
    THEN [matches |-> Append(st.matches, Strip(sentence)), assigned |-> st.assigned]
    ELSE st

\* Lines 43-45: one turn of the loop over the sentences.
ExtractSentence(sentence, kws, st) ==
    IF KeywordSearch(sentence, kws) /\ Strip(sentence) \notin st.assigned
    THEN [matches |-> Append(st.matches, Strip(sentence)),
          assigned |-> st.assigned \cup {Strip(sentence)}]
    ELSE st

\* Lines 42-48: the loop from sentence k on, and the value returned.
RECURSIVE ExtractFrom(_, _, _, _)
ExtractFrom(sentences, kws, k, st) ==
    IF k > Len(sentences)
    THEN [matches |-> IF st.matches # <<>> THEN st.matches
                      ELSE << <<"N","o","t"," ","F","o","u","n","d">> >>,
          assigned |-> st.assigned]
    ELSE ExtractFrom(sentences, kws, k + 1, ExtractSentence(sentences[k], kws, st))

ProcInit ==
    /\ rfp_file_text \in ProcTexts
    /\ proc_pc = "call"
    /\ proc_text = Unbound
    /\ assigned_sentences = {}
    /\ details = <<>>

ProcIdle ==
    /\ rfp_file_text = <<>>
    /\ proc_pc = "idle"
    /\ proc_text = Unbound
    /\ assigned_sentences = {}
    /\ details = <<>>

\* Lines 79-98: the text is decoded and cleaned, assigned_sentences is empty.
ProcBegin ==
    /\ proc_pc = "call"
    /\ proc_text' = Just(CleanText(rfp_file_text))
    /\ assigned_sentences' = {}
    /\ details' = <<>>
    /\ proc_pc' = "extract"
    /\ UNCHANGED <<rfp_file_text, rfpVars, covVars, fmtVars, evVars, flowVars>>

\* Lines 106-111: the next element of "Details".
ProcExtract ==
    /\ proc_pc = "extract"
    /\ Len(details) < Len(category_keywords)
    /\ \E r \in {ExtractFrom(SplitSentences(proc_text[1]),
                             category_keywords[Len(details) + 1], 1,
                             [matches |-> <<>>, assigned |-> assigned_sentences])} :
          /\ details' = Append(details, JoinWith(r.matches, <<NL>>))
          /\ assigned_sentences' = r.assigned
    /\ UNCHANGED <<rfp_file_text, proc_pc, proc_text>>
    /\ UNCHANGED <<rfpVars, covVars, fmtVars, evVars, flowVars>>

\* Lines 115-116.
ProcReturn ==
    /\ proc_pc = "extract"
    /\ Len(details) = Len(category_keywords)
    /\ proc_pc' = "done"
    /\ UNCHANGED <<rfp_file_text, proc_text, assigned_sentences, details>>
    /\ UNCHANGED <<rfpVars, covVars, fmtVars, evVars, flowVars>>

ProcNext == ProcBegin \/ ProcExtract \/ ProcReturn

(***************************************************************************)
(* Specifications: one per function under study.                           *)
(***************************************************************************)
InitRfp == RfpInit /\ CovIdle /\ FmtIdle /\ EvIdle /\ FlowIdle /\ ProcIdle

SpecRfp == InitRfp /\ [][RfpNext]_vars

InitCov == CovInit /\ RfpIdle /\ FmtIdle /\ EvIdle /\ FlowIdle /\ ProcIdle

SpecCov == InitCov /\ [][CovNext]_vars

InitFmt == FmtInit /\ RfpIdle /\ CovIdle /\ EvIdle /\ FlowIdle /\ ProcIdle

SpecFmt == InitFmt /\ [][FmtNext]_vars

InitEval == EvInit /\ RfpIdle /\ CovIdle /\ FmtIdle /\ FlowIdle /\ ProcIdle

SpecEval == InitEval /\ [][EvNext]_vars

InitEvalKeep == EvInit /\ RfpIdle /\ CovIdle /\ FmtIdle /\ FlowIdle /\ ProcIdle

SpecEvalKeep == InitEvalKeep /\ [][EvNextKeep]_vars

InitFlow == FlowInit /\ RfpIdle /\ CovIdle /\ FmtIdle /\ EvIdle /\ ProcIdle

SpecFlow == InitFlow /\ [][FlowNext]_vars

InitProc == ProcInit /\ RfpIdle /\ CovIdle /\ FmtIdle /\ EvIdle /\ FlowIdle

SpecProc == InitProc /\ [][ProcNext]_vars

(***************************************************************************)
(* Properties of extract_rfp_expectations.                                 *)
(***************************************************************************)
NextItem == text_with_formatting[rfp_i + 1]

LastItem == text_with_formatting[rfp_i]

\* C9: extract_rfp_expectations never holds (and so never returns) two
\* expectations whose texts are equal ignoring case, wherever the duplicate
\* runs occur.
C9_NoDuplicateIgnoringCase ==
    \A i, j \in 1..Len(expectations) :
        i # j => Lower(expectations[i].expectation) # Lower(expectations[j].expectation)

\* The call has returned on an input whose first and third runs are body runs
\* with the same keyword text in different case, separated by a heading run,
\* and only the first was emitted.
C9_Witness ==
    /\ rfp_pc = "done"
    /\ Len(text_with_formatting) = 3
    /\ text_with_formatting[1].text = <<"g","o","a","l">>
    /\ text_with_formatting[3].text = <<"G","O","A","L">>
    /\ ~IsHeading(text_with_formatting[1], body_font_size)
    /\ IsHeading(text_with_formatting[2], body_font_size)
    /\ text_with_formatting[2].text # <<>>
    /\ ~IsHeading(text_with_formatting[3], body_font_size)
    /\ Len(expectations) = 1
    /\ current_section # General

\* C10 as stated: every bold run, whatever its font size and whatever its
\* text, sets current_section to its text with trailing colons stripped,
\* title-cased.
C10_EveryBoldRunSetsSection ==
    [][(rfp_pc = "scan" /\ rfp_i < Len(text_with_formatting) /\ NextItem.bold)
          => current_section' = Title(RStripColons(NextItem.text))]_vars

\* C10 amended: every bold run with non-empty text, whatever its font size,
\* sets current_section to its text with the colons stripped from both ends,
\* title-cased; a bold run with empty text is skipped and leaves
\* current_section as it was.
C10_BoldNonEmptyRunSetsSection ==
    [][(rfp_pc = "scan" /\ rfp_i < Len(text_with_formatting) /\ NextItem.bold)
          => current_section' =
                IF NextItem.text = <<>> THEN current_section
                ELSE Title(StripColons(NextItem.text))]_vars

\* The loop has just consumed a bold run whose font size is present and below
\* the body font size, and current_section is its stripped, title-cased text.
C10_Witness ==
    /\ rfp_pc = "scan"
    /\ rfp_i >= 1
    /\ LastItem.bold
    /\ LastItem.font_size # None
    /\ LastItem.font_size < body_font_size
    /\ LastItem.text = <<":","t","o"," ","d","o",":">>
    /\ current_section = <<"T","o"," ","D","o">>

(***************************************************************************)
(* Properties of check_expectations_coverage.                              *)
(***************************************************************************)
\* The largest similarity between a text and any paragraph of the proposal.
MaxRatio(exp_text) ==
    LET all == {partial_ratio[<<exp_text, p>>] : p \in Range(Split(proposal_text))}
    IN  CHOOSE m \in all : \A r \in all : r <= m

Wrapped(exps) == [i \in 1..Len(exps) |-> [expectation |-> exps[i]]]

\* C6: on return every input expectation is in exactly one of addressed and
\* missing: in addressed iff its largest partial-ratio similarity with a
\* paragraph of the proposal (split on newlines) is at least 70, else in
\* missing; both lists keep the input order and their lengths add up to the
\* number of expectations.
C6_PartitionByThreshold ==
    cov_pc = "done" =>
        /\ addressed =
             Wrapped(SelectSeq(cov_expectations,
                               LAMBDA e : MaxRatio(e.expectation) >= 70))
        /\ missing =
             Wrapped(SelectSeq(cov_expectations,
                               LAMBDA e : MaxRatio(e.expectation) < 70))
        /\ Len(addressed) + Len(missing) = Len(cov_expectations)

\* The call has returned on a proposal of several paragraphs with one
\* expectation whose best similarity is exactly 70 (addressed) and one whose
\* best similarity is 69 (missing).
C6_Witness ==
    /\ cov_pc = "done"
    /\ Len(proposal_paragraphs) >= 2
    /\ \E i, j \in 1..Len(cov_expectations) :
          /\ MaxRatio(cov_expectations[i].expectation) = 70
          /\ MaxRatio(cov_expectations[j].expectation) = 69
          /\ [expectation |-> cov_expectations[i]] \in Range(addressed)
          /\ [expectation |-> cov_expectations[j]] \in Range(missing)

\* The fraction num/den rounded to two decimals, in hundredths.
Round2(frac) == (frac[1] * 200 + frac[2]) \div (2 * frac[2])

\* C7: the returned score is len(addressed)/len(expectations)*100 and lies in
\* [0,100]; on an empty expectation list the division is not attempted (the
\* denominator is never 0), the score is exactly 0 and both lists are empty;
\* 2 of 3 addressed gives 66.67.
C7_ScoreIsAddressedShare ==
    cov_pc = "done" =>
        /\ cov_score[2] > 0
        /\ cov_score[1] * Len(cov_expectations) = Len(addressed) * 100 * cov_score[2]
        /\ 0 <= cov_score[1] /\ cov_score[1] <= 100 * cov_score[2]
        /\ cov_expectations = <<>> =>
              cov_score[1] = 0 /\ addressed = <<>> /\ missing = <<>>
        /\ (Len(cov_expectations) = 3 /\ Len(addressed) = 2) =>
              Round2(cov_score) = 6667 /\ Len(missing) = 1

\* The call has returned with 2 of 3 expectations addressed.
C7_Witness ==
    /\ cov_pc = "done"
    /\ Len(cov_expectations) = 3
    /\ Len(addressed) = 2
    /\ Len(missing) = 1
    /\ cov_score = <<200, 3>>

Thresholds == {0, 69, 70, 71, 100, 101}

BestOf(i) ==
    BestMatchScore(cov_expectations[i].expectation, Split(proposal_text), partial_ratio)

ScoreUnder(t) ==
    CheckExpectationsCoverage(cov_expectations, proposal_text, partial_ratio, t).score

\* C8: for the fixed input of a call and thresholds t1 <= t2, every
\* expectation addressed under t2 is addressed under t1 and the score under
\* t2 is at most the score under t1; the lists and the score the call
\* returned are those of threshold 70.
C8_MonotonicInThreshold ==
    cov_pc = "done" =>
        /\ CheckExpectationsCoverage(cov_expectations, proposal_text,
                                     partial_ratio, MatchThreshold)
             = [score |-> cov_score, addressed |-> addressed, missing |-> missing]
        /\ \A t1, t2 \in Thresholds :
              t1 <= t2 =>
                /\ \A i \in 1..Len(cov_expectations) :
                      IsAddressed(BestOf(i), t2) => IsAddressed(BestOf(i), t1)
                /\ ScoreUnder(t2)[1] * ScoreUnder(t1)[2]
                      <= ScoreUnder(t1)[1] * ScoreUnder(t2)[2]

\* The call has returned on an input where raising the threshold from 69 to
\* 71 moves an expectation from addressed to missing and lowers the score.
C8_Witness ==
    /\ cov_pc = "done"
    /\ \E i \in 1..Len(cov_expectations) :
          IsAddressed(BestOf(i), 69) /\ ~IsAddressed(BestOf(i), 71)
    /\ ScoreUnder(71)[1] * ScoreUnder(69)[2] < ScoreUnder(69)[1] * ScoreUnder(71)[2]

(***************************************************************************)
(* Properties of formatting_check.                                         *)
(***************************************************************************)
HasUnapprovedFont(doc) ==
    \E p \in 1..Len(doc) : \E k \in 1..Len(doc[p].runs) :
        /\ doc[p].runs[k].name # NoName
        /\ Lower(doc[p].runs[k].name) \notin ApprovedFonts

\* C3: formatting_check returns font_ok = false whenever any run of any
\* paragraph has a font name that is present and outside {Tenorite, Candara},
\* whichever paragraph holds it and whatever font-size violations come before.
C3_FontOkFalseOnAnyUnapprovedRun ==
    fmt_pc = "done" => (HasUnapprovedFont(fmt_doc) => ~font_ok)

(***************************************************************************)
(* Properties of evaluate_proposal.                                        *)
(***************************************************************************)
FEq(a, b) == a[1] * b[2] = b[1] * a[2]

\* The weighted sum of the four component scores, each out of 100.
WeightedSum(sectionPercent, spellScore, methodologyScore, formattingScore) ==
    << 35 * sectionPercent[1] * formattingScore[2]
          + 20 * spellScore * sectionPercent[2] * formattingScore[2]
          + 25 * methodologyScore * sectionPercent[2] * formattingScore[2]
          + 20 * formattingScore[1] * sectionPercent[2],
       100 * sectionPercent[2] * formattingScore[2] >>

PresentCount == Cardinality({i \in 1..Len(section_results) : section_results[i]})

ComponentSum ==
    WeightedSum(<<100 * PresentCount, Len(required_sections)>>,
                IF formatting_results.spelling_issues = 0 THEN 100
                ELSE Max(0, 100 - 10 * formatting_results.spelling_issues),
                IF Len(missing_components) = 0 THEN 100
                ELSE Max(0, 100 - 10 * Len(missing_components)),
                <<(IF formatting_results.font_ok THEN 100 ELSE 0)
                    + (IF formatting_results.font_size_ok THEN 100 ELSE 0), 2>>)

\* C1: the score evaluate_proposal returns is sectionPercent*0.35 +
\* spellScore*0.20 + methodologyScore*0.25 + formattingScore*0.20, with
\* methodologyScore 100 when no methodology component is missing and
\* max(0, 100 - 10*missingCount) otherwise; with every component at 100 the
\* score is 100.
C1_ScoreIsWeightedSum ==
    ev_pc = "done" =>
        /\ FEq(total_score, ComponentSum)
        /\ (/\ PresentCount = Len(required_sections)
            /\ formatting_results.spelling_issues = 0
            /\ Len(missing_components) = 0
            /\ formatting_results.font_ok
            /\ formatting_results.font_size_ok) => total_score = <<100, 1>>

\* C2: for a non-empty list of required sections the score evaluate_proposal
\* returns is at least 0 and at most 100, whatever the number of spelling
\* issues, the number of missing methodology components and the two
\* formatting flags.
C2_ScoreWithinBounds ==
    (ev_pc \in {"scored", "done"} /\ required_sections # <<>>) =>
        /\ FLe(<<0, 1>>, total_score)
        /\ FLe(total_score, <<100, 1>>)

\* The lowest score: no section, fifteen spelling issues, every methodology
\* component missing, both formatting flags false.
C2_Witness ==
    /\ ev_pc = "done"
    /\ required_sections # <<>>
    /\ PresentCount = 0
    /\ formatting_results.spelling_issues = MaxSpellingIssues
    /\ Len(missing_components) = Len(methodology_components)
    /\ ~formatting_results.font_ok
    /\ ~formatting_results.font_size_ok
    /\ total_score = <<15, 2>>

(***************************************************************************)
(* Properties of the script.                                               *)
(***************************************************************************)
ProposalDecodingFails ==
    /\ uploaded_proposal # PyNone
    /\ ExtractText(uploaded_proposal[1]).raised # <<>>

ProposalDecodes ==
    /\ uploaded_proposal # PyNone
    /\ ExtractText(uploaded_proposal[1]).raised = <<>>

RfpDecodingFails ==
    /\ uploaded_rfp # PyNone
    /\ ExtractTextWithFormatting(uploaded_rfp[1]).raised # <<>>

\* C4: in a run where extract_text raises for the uploaded proposal, no
\* exception escapes the script: every later step is skipped or ends in a
\* caught, reported error.
C4_NoUnhandledFaultAfterFailedDecoding ==
    ProposalDecodingFails => (unhandled = <<>> /\ flow_pc # "crashed")

C18_ReportOnlyWithEvaluation ==
    /\ flow_pc = "report" => evaluation # PyNone
    /\ flow_pc \in {"display", "report"} =>
           ~(evaluation = PyNone /\ rfp_score # PyNone)
    /\ "report" \in shown => evaluation # PyNone

\* C18 witness: the report step is reached with rfp_score set, in a run
\* where the RFP was decoded and the coverage was computed.
C18_Witness ==
    /\ flow_pc = "report"
    /\ rfp_score # PyNone
    /\ evaluation # PyNone
    /\ uploaded_rfp # PyNone
    /\ errors = <<>>

(***************************************************************************)
(* Properties of extract_rfp_expectations: results per run, section tags,  *)
(* emission.                                                               *)
(***************************************************************************)
\* The runs of the input that the scan neither skips nor takes as headings.
IsBodyRun(i) ==
    /\ text_with_formatting[i].text # <<>>
    /\ ~IsHeading(text_with_formatting[i], body_font_size)

\* The first body run carrying the text of the k-th result; 0 when none does.
SourceRun(k) ==
    LET from == {i \in 1..Len(text_with_formatting) :
                    /\ IsBodyRun(i)
                    /\ text_with_formatting[i].text = expectations[k].expectation}
    IN  IF from = {} THEN 0 ELSE CHOOSE i \in from : \A j \in from : i <= j

\* C11 as stated: the pass yields one tagged result per input run, in input
\* order, so the results are as many as the runs and the i-th result is the
\* i-th run, empty-text runs and heading runs included.
C11_OneResultPerRun ==
    rfp_pc = "done" =>
        /\ Len(expectations) = Len(text_with_formatting)
        /\ \A i \in 1..Len(expectations) :
               expectations[i].expectation = text_with_formatting[i].text

\* C11, amended: the pass yields at most one tagged result per input run, in
\* input order: every result is the text of a body run of the input, and the
\* runs the results come from are in strictly increasing position.
C11_ResultsFollowInputOrder ==
    rfp_pc = "done" =>
        /\ Len(expectations) <= Len(text_with_formatting)
        /\ \A k \in 1..Len(expectations) : SourceRun(k) # 0
        /\ \A k \in 1..(Len(expectations) - 1) : SourceRun(k) < SourceRun(k + 1)

\* Two results out of three runs, the run between them a heading.
C11_Witness ==
    /\ rfp_pc = "done"
    /\ Len(text_with_formatting) = 3
    /\ Len(expectations) = 2
    /\ IsHeading(text_with_formatting[2], body_font_size)
    /\ SourceRun(1) = 1
    /\ SourceRun(2) = 3

\* A heading run: non-empty text, bold or larger than the body font size.
HeadingRun(i) ==
    /\ text_with_formatting[i].text # <<>>
    /\ \/ text_with_formatting[i].bold
       \/ /\ text_with_formatting[i].font_size # None
          /\ text_with_formatting[i].font_size > body_font_size

\* The section in force at run i: from the last heading run before it.
SectionBefore(i) ==
    LET before == {j \in 1..(i - 1) : HeadingRun(j)}
    IN  IF before = {} THEN General
        ELSE Title(StripColons(
                 text_with_formatting[CHOOSE j \in before : \A h \in before : h <= j].text))

\* C15: every expectation returned carries as its section the title-cased,
\* colon-stripped text of the last heading run before the run it comes from,
\* or "General" when no heading run precedes it; of consecutive heading runs
\* only the last counts; and a heading run is never emitted, so every
\* expectation comes from a run that is not a heading.
C15_SectionIsLastHeadingBefore ==
    rfp_pc = "done" =>
        \A k \in 1..Len(expectations) :
            /\ SourceRun(k) # 0
            /\ ~HeadingRun(SourceRun(k))
            /\ expectations[k].section = SectionBefore(SourceRun(k))

\* Two heading runs in a row, the first with a keyword, then a body run: the
\* expectation carries the second heading.
C15_Witness ==
    /\ rfp_pc = "done"
    /\ Len(text_with_formatting) = 3
    /\ HeadingRun(1)
    /\ HasKeyword(text_with_formatting[1].text)
    /\ HeadingRun(2)
    /\ Title(StripColons(text_with_formatting[1].text))
         # Title(StripColons(text_with_formatting[2].text))
    /\ Len(expectations) = 1
    /\ SourceRun(1) = 3
    /\ expectations[1].section = Title(StripColons(text_with_formatting[2].text))

\* Run i is a body run whose text, in lower case, contains a catalog keyword.
KeywordBodyRun(i) ==
    /\ text_with_formatting[i].text # <<>>
    /\ ~HeadingRun(i)
    /\ \E n \in 1..Len(keywords) :
          Contains(keywords[n], Lower(text_with_formatting[i].text))

\* Run i is the first keyword-bearing body run with its lower-case text.
FirstOccurrence(i) ==
    /\ KeywordBodyRun(i)
    /\ \A j \in 1..(i - 1) :
          KeywordBodyRun(j) =>
              Lower(text_with_formatting[j].text) # Lower(text_with_formatting[i].text)

\* C16: a non-empty, non-heading run is emitted iff its text contains a
\* catalog keyword and its lower-case text was not emitted earlier in the
\* call, in the order of the runs: the texts returned are those of the first
\* occurrences of keyword-bearing body runs, in input order.
C16_EmitsFirstKeywordOccurrences ==
    rfp_pc = "done" =>
        [k \in 1..Len(expectations) |-> expectations[k].expectation]
          = LET idx == SelectSeq([i \in 1..Len(text_with_formatting) |-> i],
                                 FirstOccurrence)
            IN  [k \in 1..Len(idx) |-> text_with_formatting[idx[k]].text]

\* A keyword run, the same text in another case, and a run with another
\* keyword: the first and the third are emitted.
C16_Witness ==
    /\ rfp_pc = "done"
    /\ Len(text_with_formatting) = 3
    /\ FirstOccurrence(1)
    /\ KeywordBodyRun(2)
    /\ ~FirstOccurrence(2)
    /\ text_with_formatting[2].text # text_with_formatting[1].text
    /\ FirstOccurrence(3)
    /\ Len(expectations) = 2

Fails(category) ==
    CASE category = "sections" -> \E i \in 1..Len(section_results) : ~section_results[i]
      [] category = "spelling" -> formatting_results.spelling_issues > 0
      [] category = "font" -> ~formatting_results.font_ok
      [] category = "size" -> ~formatting_results.font_size_ok
      [] category = "methodology" -> missing_components # <<>>

\* C13: the recommendations are one line per failing category and none for a
\* passing one, in the order missing sections, spelling, font name, font
\* size, methodology; the list is empty iff no category fails; when the only
\* failure is one missing section S the list is exactly
\* "Kindly include the following missing sections: S".
C13_OneLinePerFailingCategory ==
    ev_pc = "done" =>
        /\ [i \in 1..Len(recommendations) |-> recommendations[i].category]
              = SelectSeq(<<"sections", "spelling", "font", "size", "methodology">>, Fails)
        /\ (recommendations = <<>>) <=>
              ~\E c \in {"sections", "spelling", "font", "size", "methodology"} : Fails(c)
        /\ \A i \in 1..Len(required_sections) :
              (/\ ~section_results[i]
               /\ \A j \in 1..Len(required_sections) : j # i => section_results[j]
               /\ ~\E c \in {"spelling", "font", "size", "methodology"} : Fails(c))
              => /\ Len(recommendations) = 1
                 /\ recommendations[1].text =
                       <<"K","i","n","d","l","y"," ","i","n","c","l","u","d","e"," ",
                         "t","h","e"," ","f","o","l","l","o","w","i","n","g"," ",
                         "m","i","s","s","i","n","g"," ","s","e","c","t","i","o","n","s",
                         ":"," ">> \o required_sections[i]

\* The only failure is the missing section Budget.
C13_Witness ==
    /\ ev_pc = "done"
    /\ Len(required_sections) = 2
    /\ section_results = <<TRUE, FALSE>>
    /\ required_sections[2] = <<"B","u","d","g","e","t">>
    /\ ~\E c \in {"spelling", "font", "size", "methodology"} : Fails(c)
    /\ Len(recommendations) = 1

(***************************************************************************)
(* Properties of evaluate_proposal: methodology components.                *)
(***************************************************************************)
\* The seven methodology components, each with its labels.
ComponentLabels ==
    << { <<"p","r","o","j","e","c","t"," ","k","i","c","k","-","o","f","f">>,
         <<"p","r","o","j","e","c","t"," ","i","n","c","e","p","t","i","o","n">> },
       { <<"d","e","s","k"," ","r","e","v","i","e","w">> },
       { <<"d","a","t","a"," ","c","o","l","l","e","c","t","i","o","n">> },
       { <<"d","a","t","a"," ","a","n","a","l","y","s","i","s">> },
       { <<"d","a","t","a"," ","m","a","n","a","g","e","m","e","n","t">> },
       { <<"r","e","p","o","r","t"," ","d","e","v","e","l","o","p","m","e","n","t">> },
       { <<"d","e","l","i","v","e","r","a","b","l","e","s">>,
         <<"o","u","t","p","u","t">>,
         <<"o","u","t","p","u","t","s">> } >>

\* C14: each of the seven methodology components is reported missing iff
\* none of its labels occurs in the lower-cased concatenation of the
\* paragraphs that contain "methodology" or "approach", so a component whose
\* alternative label is present is not reported missing; and the number of
\* components reported missing is the count the methodology score uses.
C14_MissingIffNoLabelPresent ==
    ev_pc = "done" =>
        /\ \A k \in 1..Len(ComponentLabels) :
              (\E l \in ComponentLabels[k] : l \in Range(missing_components))
              <=> (\A l \in ComponentLabels[k] : ~Contains(l, MethodologyText(ev_doc)))
        /\ FEq(total_score, ComponentSum)

(***************************************************************************)
(* Properties of process_rfp (Combined_keep.py).                           *)
(***************************************************************************)
\* The sentences of the cleaned text, as extract_sentences_with_keywords
\* records them.
TextSentences == {Strip(x) : x \in Range(SplitSentences(CleanText(rfp_file_text)))}

\* The categories, by position, whose keywords a sentence matches.
MatchingCategories(s) ==
    {c \in 1..Len(category_keywords) : KeywordSearch(s, category_keywords[c])}

FirstCategory(s) ==
    CHOOSE c \in MatchingCategories(s) : \A d \in MatchingCategories(s) : c <= d

\* The lines of the Details of category c.
DetailLines(c) == Split(details[c])

\* The sentences the category c is due, mc giving the matching categories
\* of every sentence: those whose first matching category, in the order Scope
\* of Work, Methodology, Eligibility, Budget, Deadlines, Selection Process, is c.
DueTo(mc, c) == {s \in DOMAIN mc : c \in mc[s] /\ \A d \in mc[s] : c <= d}

\* C17: the six extractions share one assigned_sentences set: the Details of
\* a category hold, once each, exactly the sentences whose first matching
\* category it is, so no sentence is in the Details of two categories, and a
\* category left without sentence holds exactly "Not Found".
C17_SentenceOnlyInFirstMatchingCategory ==
    \A mc \in {[s \in TextSentences |-> MatchingCategories(s)]} :
    \A lines \in {[c \in 1..Len(details) |-> DetailLines(c)]} :
        /\ \A c \in 1..Len(details) : \A due \in {DueTo(mc, c)} :
              IF due = {}
              THEN lines[c] = << <<"N","o","t"," ","F","o","u","n","d">> >>
              ELSE /\ Range(lines[c]) = due
                   /\ Len(lines[c]) = Cardinality(due)
        /\ \A s \in DOMAIN mc :
              mc[s] # {} =>
                  Cardinality({c \in 1..Len(details) : s \in Range(lines[c])}) <= 1

\* C17 witness: process_rfp has returned for a text with a sentence that
\* matches the keywords of two categories; the first of them holds it and the
\* other one holds "Not Found".
C17_Witness ==
    /\ proc_pc = "done"
    /\ \E s \in TextSentences :
          /\ Cardinality(MatchingCategories(s)) >= 2
          /\ s \in Range(DetailLines(FirstCategory(s)))
          /\ \E c \in MatchingCategories(s) :
                details[c] = <<"N","o","t"," ","F","o","u","n","d">>

=============================================================================
